---- MODULE Spec2Model ----
(***************************************************************************)
(* Model of logo.py: a script that loads ./logo.png, isolates its red      *)
(* channel, computes FRAME_RATE * DURATION frames by replacing the hue and *)
(* scaling the brightness of the red baseline, and saves the frames as one *)
(* looping animation.                                                      *)
(*                                                                         *)
(* Python floats are modelled as exact rationals [n, d] in lowest terms,   *)
(* so every conversion is computed with the arithmetic steps colorsys      *)
(* performs, in the order it performs them.  np.sin is a table of the sine *)
(* at multiples of two degrees, rounded to 1/SinScale.                     *)
(***************************************************************************)
EXTENDS Integers, Sequences, FiniteSets, TLC

VARIABLES
    cfg,         \* the module constants FRAME_RATE, DURATION, SHIFTS, BLINKS
    input,       \* what is stored at INPUT_FILE: an RGBA image, or no image
    pc,          \* position of the script
    err,         \* the exception that ended the script, or "none"
    arr,         \* the float array `arr` (lines 47, 48)
    baseline,    \* history: `arr` as only_red returned it (line 48)
    idx,         \* the loop variable i of line 58 (next index to compute)
    hue,         \* `hue` of line 60, as last computed
    brightness,  \* `brightness` of line 61, as last computed
    raw,         \* the float result of shift_hue on line 63, before astype
    frames,      \* the list `frames`
    output,      \* what is stored at OUTPUT_FILE
    saves        \* history: number of completed frames[0].save calls

vars == <<cfg, input, pc, err, arr, baseline, idx, hue, brightness, raw,
          frames, output, saves>>

----------------------------------------------------------------------------
(* Exact rational arithmetic standing for Python float arithmetic.         *)

Abs(x) == IF x < 0 THEN -x ELSE x

RECURSIVE GCD(_, _)
GCD(a, b) == IF b = 0 THEN a ELSE GCD(b, a % b)

Rat(n, d) ==
    LET g == GCD(Abs(n), Abs(d))
        s == IF d < 0 THEN -1 ELSE 1
    IN  [n |-> (s * n) \div g, d |-> (s * d) \div g]

R(k) == [n |-> k, d |-> 1]
RAdd(x, y) == Rat(x.n * y.d + y.n * x.d, x.d * y.d)
RSub(x, y) == Rat(x.n * y.d - y.n * x.d, x.d * y.d)
RMul(x, y) == Rat(x.n * y.n, x.d * y.d)
RDiv(x, y) == Rat(x.n * y.d, x.d * y.n)
RLe(x, y) == x.n * y.d <= y.n * x.d
RLt(x, y) == x.n * y.d < y.n * x.d
RMax(x, y) == IF RLe(x, y) THEN y ELSE x
RMin(x, y) == IF RLe(x, y) THEN x ELSE y
RFloor(x) == x.n \div x.d
\* int(x): truncation toward zero
RTrunc(x) == IF x.n >= 0 THEN x.n \div x.d ELSE -((-x.n) \div x.d)
\* x % 1.0: Python's float modulo takes the sign of the divisor
RMod1(x) == RSub(x, R(RFloor(x)))

----------------------------------------------------------------------------
(* colorsys.rgb_to_hsv and colorsys.hsv_to_rgb, as np.vectorize applies    *)
(* them to one element (lines 15, 16).                                     *)

rgb_to_hsv(r, g, b) ==
    LET maxc == RMax(RMax(r, g), b)
        minc == RMin(RMin(r, g), b)
        rangec == RSub(maxc, minc)
        v == maxc
    IN  IF minc = maxc THEN [h |-> R(0), s |-> R(0), v |-> v]
        ELSE
          LET s == RDiv(rangec, maxc)
              rc == RDiv(RSub(maxc, r), rangec)
              gc == RDiv(RSub(maxc, g), rangec)
              bc == RDiv(RSub(maxc, b), rangec)
              h0 == IF r = maxc THEN RSub(bc, gc)
                    ELSE IF g = maxc THEN RSub(RAdd(R(2), rc), bc)
                    ELSE RSub(RAdd(R(4), gc), rc)
              h == RMod1(RDiv(h0, R(6)))
          IN  [h |-> h, s |-> s, v |-> v]

hsv_to_rgb(h, s, v) ==
    IF s = R(0) THEN <<v, v, v>>
    ELSE
      LET i0 == RTrunc(RMul(h, R(6)))
          f == RSub(RMul(h, R(6)), R(i0))
          p == RMul(v, RSub(R(1), s))
          q == RMul(v, RSub(R(1), RMul(s, f)))
          t == RMul(v, RSub(R(1), RMul(s, RSub(R(1), f))))
          i == i0 % 6
      IN  CASE i = 0 -> <<v, t, p>>
            [] i = 1 -> <<q, v, p>>
            [] i = 2 -> <<p, v, t>>
            [] i = 3 -> <<p, q, v>>
            [] i = 4 -> <<t, p, v>>
            [] i = 5 -> <<v, p, q>>

----------------------------------------------------------------------------
(* The transforms of logo.py.  An array is a sequence of pixels, a pixel a *)
(* tuple <<r, g, b, a>> of floats.                                         *)

\* faulty variant: the alpha plane is scaled together with the value plane
shift_hue_pixel_scaled_alpha(px, hout, factor) ==
    LET hsv == rgb_to_hsv(px[1], px[2], px[3])
        rgb == hsv_to_rgb(hout, hsv.s, RMul(hsv.v, factor))
    IN  <<rgb[1], rgb[2], rgb[3], RMul(px[4], factor)>>

\* faulty variant: the hue is added to the pixel's hue instead of replacing it
shift_hue_pixel_added(px, hout, factor) ==
    LET hsv == rgb_to_hsv(px[1], px[2], px[3])
        rgb == hsv_to_rgb(RAdd(hsv.h, hout), hsv.s, RMul(hsv.v, factor))
    IN  <<rgb[1], rgb[2], rgb[3], px[4]>>

\* shift_hue on the element at one position (lines 18-23)
shift_hue_pixel(px, hout, factor) ==
    LET hsv == rgb_to_hsv(px[1], px[2], px[3])        \* line 19
        h == hout                                     \* line 20
        v == RMul(hsv.v, factor)                      \* line 21
        rgb == hsv_to_rgb(h, hsv.s, v)                \* line 22
    IN  <<rgb[1], rgb[2], rgb[3], px[4]>>             \* line 23

\* faulty variant: v is the view r of the caller's array, so `v *= factor` writes
\* the red plane of that array
in_place_on_view(a, hout, factor) ==
    [p \in DOMAIN a |->
        <<RMul(rgb_to_hsv(a[p][1], a[p][2], a[p][3]).v, factor),
          a[p][2], a[p][3], a[p][4]>>]

\* The caller's array after shift_hue returned.  r, g, b, a are views of it
\* (line 18) and are only read; h, s, v are new arrays made by np.vectorize
\* (line 19), so neither `h = hout` nor the in-place `v *= factor` writes it.
arr_after_shift_hue(a, hout, factor) == a

shift_hue(a, hout, factor) ==
    [ret |-> [p \in DOMAIN a |-> shift_hue_pixel(a[p], hout, factor)],
     arr |-> arr_after_shift_hue(a, hout, factor)]

\* faulty variant: green and blue are not forced to zero
only_red_pixel_keeps_gb(px) ==
    LET hsv == rgb_to_hsv(px[1], px[2], px[3])
        rgb == hsv_to_rgb(hsv.h, hsv.s, hsv.v)
    IN  <<rgb[1], rgb[2], rgb[3], px[4]>>

\* only_red on the element at one position (lines 27-33)
only_red_pixel(px) ==
    LET g == R(0)                                     \* line 28
        b == R(0)                                     \* line 29
        hsv == rgb_to_hsv(px[1], g, b)                \* line 30
        rgb == hsv_to_rgb(hsv.h, hsv.s, hsv.v)        \* line 31
    IN  <<rgb[1], rgb[2], rgb[3], px[4]>>             \* line 33

only_red(a) == [p \in DOMAIN a |-> only_red_pixel(a[p])]

----------------------------------------------------------------------------
(* The time-parameter expressions of the frame loop (lines 59-61).         *)

\* resolution of the modelled sine: values are multiples of 1/SinScale
SinScale == 10000

\* SinScale * sin(2k degrees), rounded, for k = 0 .. 45
SinTable ==
    <<0, 349, 698, 1045, 1392, 1736, 2079, 2419, 2756, 3090, 3420, 3746,
      4067, 4384, 4695, 5000, 5299, 5592, 5878, 6157, 6428, 6691, 6947,
      7193, 7431, 7660, 7880, 8090, 8290, 8480, 8660, 8829, 8988, 9135,
      9272, 9397, 9511, 9613, 9703, 9781, 9848, 9903, 9945, 9976, 9994,
      10000>>

\* np.sin(2 * np.pi * turns), for turns a multiple of 1/180
Sin2Pi(turns) ==
    LET k == (turns.n * (180 \div turns.d)) % 180
        t == IF k <= 45 THEN SinTable[k + 1]
             ELSE IF k <= 90 THEN SinTable[90 - k + 1]
             ELSE IF k <= 135 THEN -SinTable[k - 90 + 1]
             ELSE -SinTable[180 - k + 1]
    IN  Rat(t, SinScale)

\* line 59
ElapsedTime(c, i) == RDiv(R(i), R(c.FRAME_RATE))

\* the sine term of line 61
SineTerm(c, i) ==
    Sin2Pi(RMul(RDiv(R(c.BLINKS), R(c.DURATION)), ElapsedTime(c, i)))

\* faulty variant: the hue-cycle count is multiplied by the duration
HueTimesDuration(c, i) ==
    RMul(ElapsedTime(c, i), RMul(R(c.SHIFTS), R(c.DURATION)))

\* line 60
Hue(c, i) ==
    RMul(RMul(ElapsedTime(c, i), RDiv(R(c.SHIFTS), R(c.DURATION))), R(1))

\* faulty variant: the offset 0.5 is missing
BrightnessNoOffset(c, i) == RMul(Rat(1, 2), SineTerm(c, i))

\* faulty variant: the sine is not halved
BrightnessFullAmplitude(c, i) == RAdd(Rat(1, 2), SineTerm(c, i))

\* line 61
Brightness(c, i) == RAdd(Rat(1, 2), RMul(Rat(1, 2), SineTerm(c, i)))

\* range(FRAME_RATE * DURATION) of line 58
FrameCount(c) == c.FRAME_RATE * c.DURATION

----------------------------------------------------------------------------
(* Image input and output.                                                 *)

\* pixels per image of the model
NumPixels == 2
\* SHIFTS ranges over 1 .. MaxShifts
MaxShifts == 2

\* RGBA samples: transparent black, pure red, a chromatic pixel with red
\* largest, one without red, a gray, one with blue largest
Samples ==
    <<  <<0, 0, 0, 0>>, <<255, 0, 0, 255>>, <<200, 100, 50, 128>>,
        <<0, 200, 100, 255>>, <<17, 17, 17, 64>>, <<10, 20, 40, 1>>  >>

\* the decoded RGBA images the input file may hold
Images ==
    { [p \in 1..NumPixels |-> Samples[((k + p - 2) % Len(Samples)) + 1]] :
        k \in 1..Len(Samples) }

\* what INPUT_FILE may hold: an image, nothing, or bytes that are no image
Inputs ==
    { [kind |-> "image", img |-> im] : im \in Images }
    \cup { [kind |-> k, img |-> <<>>] : k \in {"missing", "undecodable"} }

Configs ==
    [FRAME_RATE : {0, 4, 15}, DURATION : {0, 1, 3},
     SHIFTS : 1..MaxShifts, BLINKS : {1, 3}]

\* the constants of lines 10-13
Shipped == [FRAME_RATE |-> 15, DURATION |-> 3, SHIFTS |-> 1, BLINKS |-> 3]

\* faulty variant: a file that cannot be opened is replaced by a blank image
OpenOrBlank(file) ==
    IF file.kind # "image"
    THEN [ok |-> TRUE, img |-> [p \in 1..NumPixels |-> <<0, 0, 0, 0>>],
          err |-> "none"]
    ELSE [ok |-> TRUE, img |-> file.img, err |-> "none"]

\* Image.open(INPUT_FILE).convert('RGBA') of line 46
OpenRGBA(file) ==
    IF file.kind = "missing"
    THEN [ok |-> FALSE, img |-> <<>>, err |-> "FileNotFoundError"]
    ELSE IF file.kind = "undecodable"
    THEN [ok |-> FALSE, img |-> <<>>, err |-> "UnidentifiedImageError"]
    ELSE [ok |-> TRUE, img |-> file.img, err |-> "none"]

\* np.asarray(...).astype('float') of line 47
AsFloat(img) ==
    [p \in DOMAIN img |->
        <<R(img[p][1]), R(img[p][2]), R(img[p][3]), R(img[p][4])>>]

\* One float stored as uint8 (astype('uint8'), line 63).  A value that
\* truncates into 0 .. 255 is stored truncated; the conversion of any other
\* value is undefined in C, and builds either wrap it or saturate it.
Uint8Of(x) ==
    LET t == RTrunc(x)
    IN  IF 0 <= t /\ t <= 255 THEN {t}
        ELSE {t % 256, IF t < 0 THEN 0 ELSE 255}

RECURSIVE Uint8Arrays(_)
Uint8Arrays(a) ==
    IF a = <<>> THEN {<<>>}
    ELSE LET px == a[Len(a)]
         IN  { Append(rest, <<c1, c2, c3, c4>>) :
                 rest \in Uint8Arrays(SubSeq(a, 1, Len(a) - 1)),
                 c1 \in Uint8Of(px[1]), c2 \in Uint8Of(px[2]),
                 c3 \in Uint8Of(px[3]), c4 \in Uint8Of(px[4]) }

\* faulty variant: every frame, the first included, is appended to the first
EncodedAll(fs) == <<fs[1]>> \o fs

\* the sequence frames[0].save encodes: itself, then append_images (line 66)
Encoded(fs) == <<fs[1]>> \o SubSeq(fs, 2, Len(fs))

\* faulty variant: the list is handed to the encoder as it is, so an empty
\* list is saved as an animation without frames
SaveAny(fs) == [ok |-> TRUE, frames |-> fs]

\* frames[0].save(...) of line 66: frames[0] raises IndexError on an empty
\* list, before anything is written
SaveResult(fs) ==
    IF Len(fs) >= 1 THEN [ok |-> TRUE, frames |-> Encoded(fs)]
    ELSE [ok |-> FALSE, frames |-> <<>>]

NoOutput == [written |-> FALSE, frames |-> <<>>, duration |-> R(0), loop |-> 0]

----------------------------------------------------------------------------
(* The run of the script.                                                  *)

Init ==
    /\ cfg \in Configs
    /\ input \in Inputs
    /\ pc = "open"
    /\ err = "none"
    /\ arr = <<>>
    /\ baseline = <<>>
    /\ idx = 0
    /\ hue = R(0)
    /\ brightness = R(0)
    /\ raw = <<>>
    /\ frames = <<>>
    /\ output = NoOutput
    /\ saves = 0

\* lines 46-47
Open ==
    /\ pc = "open"
    /\ LET o == OpenRGBA(input)
       IN  IF o.ok
           THEN /\ arr' = AsFloat(o.img)
                /\ pc' = "only_red"
                /\ err' = err
           ELSE /\ arr' = arr
                /\ pc' = "error"
                /\ err' = o.err
    /\ UNCHANGED <<cfg, input, baseline, idx, hue, brightness, raw, frames,
                   output, saves>>

\* line 48
OnlyRed ==
    /\ pc = "only_red"
    /\ LET red == only_red(arr)
       IN  arr' = red /\ baseline' = red
    /\ pc' = "frame_duration"
    /\ UNCHANGED <<cfg, input, err, idx, hue, brightness, raw, frames,
                   output, saves>>

\* lines 51-56: round(1000 / FRAME_RATE) raises when FRAME_RATE is 0
FrameDuration ==
    /\ pc = "frame_duration"
    /\ IF cfg.FRAME_RATE = 0
       THEN pc' = "error" /\ err' = "ZeroDivisionError"
       ELSE pc' = "loop" /\ err' = err
    /\ UNCHANGED <<cfg, input, arr, baseline, idx, hue, brightness, raw,
                   frames, output, saves>>

\* lines 58-64: one iteration of the loop
FrameStep ==
    /\ pc = "loop"
    /\ idx < FrameCount(cfg)
    /\ LET h == Hue(cfg, idx)
           b == Brightness(cfg, idx)
           call == shift_hue(arr, h, b)
       IN  /\ hue' = h
           /\ brightness' = b
           /\ raw' = call.ret
           /\ arr' = call.arr
           /\ \E px \in Uint8Arrays(call.ret) :
                 frames' = Append(frames, [index |-> idx, pixels |-> px])
    /\ idx' = idx + 1
    /\ UNCHANGED <<cfg, input, pc, err, baseline, output, saves>>

\* line 66, reached when the loop is exhausted
Save ==
    /\ pc = "loop"
    /\ idx >= FrameCount(cfg)
    /\ IF SaveResult(frames).ok
       THEN /\ output' = [written |-> TRUE,
                          frames |-> SaveResult(frames).frames,
                          duration |-> RDiv(R(1000), R(cfg.FRAME_RATE)),
                          loop |-> 0]
            /\ saves' = saves + 1
            /\ pc' = "done"
            /\ err' = err
       ELSE /\ pc' = "error"
            /\ err' = "IndexError"
            /\ UNCHANGED <<output, saves>>
    /\ UNCHANGED <<cfg, input, arr, baseline, idx, hue, brightness, raw,
                   frames>>

Next == Open \/ OnlyRed \/ FrameDuration \/ FrameStep \/ Save

Spec == Init /\ [][Next]_vars

----------------------------------------------------------------------------
(* shift_hue as a function of its arguments: one call on an arbitrary      *)
(* array, hue and factor.                                                  *)

\* target hues are the multiples of 1/HueSteps in [0, 1)
HueSteps == 12
\* factors are the multiples of 1/2 up to MaxHalves/2
MaxHalves == 4

Hues == { Rat(k, HueSteps) : k \in 0..(HueSteps - 1) }
Factors == { Rat(k, 2) : k \in 0..MaxHalves }

InitCall ==
    /\ cfg = Shipped
    /\ input \in { [kind |-> "image", img |-> im] : im \in Images }
    /\ pc = "call"
    /\ err = "none"
    /\ arr = AsFloat(input.img)
    /\ baseline = arr
    /\ idx = 0
    /\ hue \in Hues
    /\ brightness \in Factors
    /\ raw = <<>>
    /\ frames = <<>>
    /\ output = NoOutput
    /\ saves = 0

\* lines 17-24
ShiftHueCall ==
    /\ pc = "call"
    /\ LET call == shift_hue(arr, hue, brightness)
       IN  raw' = call.ret /\ arr' = call.arr
    /\ pc' = "returned"
    /\ UNCHANGED <<cfg, input, err, baseline, idx, hue, brightness, frames,
                   output, saves>>

NextCall == ShiftHueCall

SpecShiftHue == InitCall /\ [][NextCall]_vars

----------------------------------------------------------------------------
(* Properties.                                                             *)

Positions == 1..NumPixels
InRun == pc \in {"loop", "done"}
\* the positions at which a statement of the script is still to be executed
Running == pc \in {"open", "only_red", "frame_duration", "loop"}

\* C1: in every frame computed so far, and in the arrays only_red and
\* shift_hue returned, the alpha of every pixel is the alpha of the same
\* pixel of the source image.
C1_AlphaPreserved ==
    input.kind = "image" =>
        /\ \A k \in 1..Len(frames) : \A p \in Positions :
              frames[k].pixels[p][4] = input.img[p][4]
        /\ \A p \in DOMAIN baseline : baseline[p][4] = R(input.img[p][4])
        /\ \A p \in DOMAIN raw : raw[p][4] = R(input.img[p][4])
        /\ \A k \in 1..Len(output.frames) : \A p \in Positions :
              output.frames[k].pixels[p][4] = input.img[p][4]

C1_Witness ==
    /\ pc = "done"
    /\ Len(frames) >= 4
    /\ \E p \in Positions : input.img[p][4] = 128
    /\ \E k \in 1..Len(frames) : Brightness(cfg, k - 1) = Rat(1, 2)
    /\ \E k \in 1..Len(frames) : Brightness(cfg, k - 1) = R(0)

\* C2: the list grows by one frame per index, in index order; the encoder
\* is called once, after the last index, with exactly FRAME_RATE * DURATION
\* frames of which the k-th is the frame computed from index k (45 frames
\* under the shipped constants).
C2_FramesInOrderSavedOnce ==
    /\ Len(frames) = idx
    /\ \A k \in 1..Len(frames) : frames[k].index = k - 1
    /\ saves <= 1
    /\ pc # "done" => saves = 0 /\ ~output.written
    /\ pc = "done" =>
          /\ saves = 1
          /\ output.written
          /\ idx = cfg.FRAME_RATE * cfg.DURATION
          /\ Len(output.frames) = cfg.FRAME_RATE * cfg.DURATION
          /\ \A k \in 1..Len(output.frames) :
                /\ output.frames[k] = frames[k]
                /\ output.frames[k].index = k - 1
          /\ cfg = Shipped => Len(output.frames) = 45

C2_Witness ==
    pc = "done" /\ cfg = Shipped /\ Len(output.frames) = 45 /\ saves = 1

\* C3: when FRAME_RATE * DURATION is zero nothing is ever written to the
\* output file, and the run can only stop in an error.
C3_ZeroFramesIsError ==
    cfg.FRAME_RATE * cfg.DURATION = 0 =>
        /\ ~output.written
        /\ saves = 0
        /\ pc # "done"
        /\ pc = "error" => err # "none"
        /\ ~Running => pc = "error"

C3_Witness ==
    /\ cfg.FRAME_RATE * cfg.DURATION = 0
    /\ cfg.FRAME_RATE > 0
    /\ pc = "error"
    /\ err = "IndexError"

\* C4: when the input file is missing or is no image, the run stops in an
\* error at the first step: no array is made, no frame is computed or
\* appended, and the output file is not written.
C4_NoInputNoWork ==
    input.kind # "image" =>
        /\ pc \in {"open", "error"}
        /\ pc = "error" => err \in {"FileNotFoundError", "UnidentifiedImageError"}
        /\ arr = <<>> /\ baseline = <<>> /\ raw = <<>>
        /\ frames = <<>> /\ idx = 0
        /\ ~output.written /\ saves = 0
        /\ ~Running => pc = "error"

C4_Witness == input.kind = "missing" /\ pc = "error" /\ err = "FileNotFoundError"

(* C5 *)
HsvOf(px) == rgb_to_hsv(px[1], px[2], px[3])

\* C5, as stated: shift_hue returns, at every position, a pixel whose hue is
\* hout, whose saturation is the input's, whose value is the input's times
\* factor, and whose alpha is the input's.
C5_AsStated ==
    pc = "returned" =>
        \A p \in Positions :
            /\ HsvOf(raw[p]).h = hue
            /\ HsvOf(raw[p]).s = HsvOf(baseline[p]).s
            /\ HsvOf(raw[p]).v = RMul(HsvOf(baseline[p]).v, brightness)
            /\ raw[p][4] = baseline[p][4]

\* C5, amended: value and alpha are as stated for every pixel; the
\* saturation is the input's when the scaled value is not zero; the hue is
\* hout when moreover the saturation is not zero; in the other cases the
\* result is the gray (v, v, v) of the scaled value.  The pixel at a position
\* is what shift_hue returns for the input pixel alone.
C5_ShiftHueChromatic ==
    pc = "returned" =>
        \A p \in Positions :
            LET in == HsvOf(baseline[p])
                out == HsvOf(raw[p])
                v == RMul(in.v, brightness)
            IN  /\ raw[p][4] = baseline[p][4]
                /\ out.v = v
                /\ v # R(0) => out.s = in.s
                /\ (v # R(0) /\ in.s # R(0)) => out.h = hue
                /\ (v = R(0) \/ in.s = R(0)) =>
                      /\ raw[p][1] = v /\ raw[p][2] = v /\ raw[p][3] = v
                      /\ out.h = R(0)
                /\ raw[p] = shift_hue(<<baseline[p]>>, hue, brightness).ret[1]

C5_Witness ==
    /\ pc = "returned"
    /\ hue = Rat(1, 3)
    /\ brightness = Rat(3, 2)
    /\ \E p \in Positions :
          /\ HsvOf(baseline[p]).s \notin {R(0), R(1)}
          /\ HsvOf(raw[p]).h = hue
          /\ HsvOf(baseline[p]).h # hue
    /\ \E p \in Positions : HsvOf(baseline[p]).s = R(0)

\* C6: the brightness computed for an index lies in [0, 1], and is 1 when
\* the sine term of that index is 1.
C6_BrightnessRange ==
    (InRun /\ idx >= 1) =>
        /\ RLe(R(0), brightness) /\ RLe(brightness, R(1))
        /\ SineTerm(cfg, idx - 1) = R(1) => brightness = R(1)

C6_Witness ==
    InRun /\ idx >= 1 /\ SineTerm(cfg, idx - 1) = R(1) /\ brightness = R(1)

\* C7: the hue computed for index i is i * SHIFTS / (FRAME_RATE * DURATION);
\* the first frame has hue 0 and brightness 1/2; under the shipped constants
\* index 15 has hue 1/3.
C7_HueRamp ==
    (InRun /\ idx >= 1) =>
        /\ hue = Rat((idx - 1) * cfg.SHIFTS, cfg.FRAME_RATE * cfg.DURATION)
        /\ idx = 1 => (hue = R(0) /\ brightness = Rat(1, 2)
                        /\ ElapsedTime(cfg, idx - 1) = R(0))
        /\ (cfg = Shipped /\ idx = 16) =>
              (hue = Rat(1, 3) /\ ElapsedTime(cfg, idx - 1) = R(1))

C7_Witness == InRun /\ cfg = Shipped /\ idx = 16 /\ hue = Rat(1, 3)

\* C8: the baseline pixel of a source pixel (r, g, b, a) is (r, 0, 0, a):
\* green and blue are zero, and the conversion of (r, 0, 0) to HSV and back
\* gives r again, also for r = 0.
C8_OnlyRedBaseline ==
    baseline # <<>> =>
        \A p \in Positions :
            LET r == R(input.img[p][1])
                hsv == rgb_to_hsv(r, R(0), R(0))
            IN  /\ baseline[p] = <<r, R(0), R(0), R(input.img[p][4])>>
                /\ hsv_to_rgb(hsv.h, hsv.s, hsv.v) = <<r, R(0), R(0)>>

C8_Witness ==
    /\ baseline # <<>>
    /\ pc = "frame_duration"
    /\ \E p \in Positions : input.img[p][1] = 0 /\ input.img[p][2] > 0
    /\ \E p \in Positions : input.img[p][1] > 0 /\ input.img[p][3] > 0

\* C9: once only_red has returned, `arr` keeps the value it returned, and
\* every frame in the list is shift_hue of that value at the hue and
\* brightness of the frame's own index.
C9_BaselineNeverMutated ==
    baseline # <<>> =>
        /\ arr = baseline
        /\ \A k \in 1..Len(frames) :
              frames[k].pixels \in
                 Uint8Arrays(shift_hue(baseline, Hue(cfg, k - 1),
                                       Brightness(cfg, k - 1)).ret)

C9_Witness ==
    /\ pc = "done"
    /\ Len(frames) >= 4
    /\ \E k \in 1..Len(frames) : \E p \in Positions :
          /\ baseline[p][1] # R(0)
          /\ frames[k].pixels[p][1] # RTrunc(baseline[p][1])
    /\ \E j, k \in 1..Len(frames) : frames[j].pixels # frames[k].pixels

\* C10: under the shipped constants the hue of every index lies in [0, 1)
\* and every channel of shift_hue's result lies in [0, 255] when it is
\* stored as uint8.
C10_ShippedInUint8Range ==
    (cfg = Shipped /\ idx >= 1) =>
        /\ RLe(R(0), hue) /\ RLt(hue, R(1))
        /\ \A p \in DOMAIN raw : \A c \in 1..4 :
              RLe(R(0), raw[p][c]) /\ RLe(raw[p][c], R(255))

C10_Witness ==
    /\ cfg = Shipped
    /\ idx = 45
    /\ RLt(Rat(9, 10), hue)
    /\ \E p \in DOMAIN raw : \E c \in 1..3 : RLt(R(50), raw[p][c])

====
